---- MODULE Spec2Model ----
(***************************************************************************)
(* Perth: the playback session (player/player.go, player/decoder.go) and   *)
(* the catalog scanner (playlist/scanner.go, playlist/track.go).           *)
(*                                                                         *)
(* The playback session is modelled with one control thread (the command   *)
(* loop of main.go) and the render thread of the output device.  An        *)
(* operation of the session is split exactly at the points where it can    *)
(* block on the device lock while it holds the session mutex p.mu.         *)
(***************************************************************************)
EXTENDS Integers, Sequences, FiniteSets, TLC

(***************************************************************************)
(* Bounds                                                                  *)
(***************************************************************************)
MaxLoads == 2        \* streams the decoder gateway opens in one run
MaxContent == 2      \* file contents 0..MaxContent; 0 is not decodable audio
MaxSeek == 6         \* largest seek target, in ticks of time.Duration
Second == 2          \* ticks of time.Duration in one second

Ids == 1..MaxLoads
Contents == 0..MaxContent
SeekTargets == (-1)..MaxSeek

(***************************************************************************)
(* Paths.  A path is the sequence of its bytes, so that the extension, the *)
(* lower-casing and the joins are computed as the program computes them.   *)
(***************************************************************************)
Slash == 47          \* '/'
Dot == 46            \* '.'

NameA == << 97, 46, 109, 112, 51 >>        \* "a.mp3"
NameB == << 66, 46, 87, 65, 86 >>          \* "B.WAV"
NameN == << 110, 46, 116, 120, 116 >>      \* "n.txt"
NameR == << 114 >>                         \* "r"
NameS == << 83 >>                          \* "S"
NameQ == << 113 >>                         \* "q"

\* the elements of a path: the bytes between its slashes
RECURSIVE ElementsFrom(_, _, _)
ElementsFrom(path, i, cur) ==
    IF i > Len(path) THEN << cur >>
    ELSE IF path[i] = Slash THEN << cur >> \o ElementsFrom(path, i + 1, << >>)
    ELSE ElementsFrom(path, i + 1, Append(cur, path[i]))

RECURSIVE JoinElements(_)
JoinElements(els) ==
    IF Len(els) = 0 THEN << Dot >>
    ELSE IF Len(els) = 1 THEN els[1]
    ELSE els[1] \o << Slash >> \o JoinElements(Tail(els))

\* filepath.Clean on a relative path without "..": empty elements and "."
\* elements are dropped
Clean(path) ==
    LET kept(e) == e # << >> /\ e # << Dot >>
    IN  JoinElements(SelectSeq(ElementsFrom(path, 1, << >>), kept))

\* filepath.Join(dir, name)
Join(dir, name) == Clean(dir \o << Slash >> \o name)

\* filepath.Ext: the suffix from the last dot of the last element, or ""
RECURSIVE ExtFrom(_, _)
ExtFrom(path, i) ==
    IF i = 0 THEN << >>
    ELSE IF path[i] = Slash THEN << >>
    ELSE IF path[i] = Dot THEN SubSeq(path, i, Len(path))
    ELSE ExtFrom(path, i - 1)

Ext(path) == ExtFrom(path, Len(path))

\* filepath.Base: the last element of the path
RECURSIVE BaseFrom(_, _)
BaseFrom(path, i) ==
    IF i = 0 THEN path
    ELSE IF path[i] = Slash THEN SubSeq(path, i + 1, Len(path))
    ELSE BaseFrom(path, i - 1)

Base(path) == BaseFrom(path, Len(path))

\* strings.ToLower on ASCII
ToLower(str) ==
    [i \in 1..Len(str) |-> IF str[i] >= 65 /\ str[i] <= 90 THEN str[i] + 32 ELSE str[i]]

(***************************************************************************)
(* Decoder gateway (player/decoder.go)                                     *)
(***************************************************************************)
\* the keys of the registry: ".mp3", ".wav", ".flac"
registry == { << 46, 109, 112, 51 >>, << 46, 119, 97, 118 >>,
              << 46, 102, 108, 97, 99 >> }

\* what the decoders make of a file's bytes: content 0 does not decode,
\* content c > 0 is audio sampled at rate c with c + 1 samples
Decodable(c) == c > 0
SampleRateOf(c) == c
LenOf(c) == c + 1

Missing == -1        \* no file at the path

\* Open(path): the result of the decoder the extension selects
Open(path, data) ==
    LET ext == ToLower(Ext(path))
    IN  IF ext \notin registry THEN [err |-> "UnsupportedFormat", rate |-> 0, len |-> 0]
        ELSE IF data = Missing \/ ~Decodable(data)
             THEN [err |-> "DecodeError", rate |-> 0, len |-> 0]
        ELSE [err |-> "ok", rate |-> SampleRateOf(data), len |-> LenOf(data)]

\* the paths given to Load
LoadPaths == { NameA, Join(NameR, NameB), NameN }

\* Go's integer division truncates toward zero
TruncDiv(a, b) == IF a >= 0 THEN a \div b ELSE -((-a) \div b)

\* beep.SampleRate.N: duration -> samples;  beep.SampleRate.D: samples -> duration
SampleRateN(sr, d) == TruncDiv(d * sr, Second)
SampleRateD(sr, n) == TruncDiv(Second * n, sr)

(***************************************************************************)
(* State                                                                   *)
(***************************************************************************)
VARIABLES
    \* Player fields
    stream,      \* p.stream: 0 is nil, else the id of the stream
    format,      \* p.format.SampleRate (0: zero value)
    ctrl,        \* p.ctrl and p.vol (always set together): 0 is nil
    playing,     \* p.playing
    endedCh,     \* p.endedCh: the id of the channel
    inited,      \* p.inited
    mu,          \* holder of p.mu: "none", "ctl", "rnd"
    \* objects made by Load
    nstreams,    \* streams opened so far; the next gets id nstreams + 1
    open,        \* ids of the streams opened and not closed
    pos,         \* pos[s]: sample position of stream s
    slen,        \* slen[s]: Len() of stream s
    paused,      \* paused[c]: beep.Ctrl.Paused of the ctrl wrapping stream c
    closers,     \* closers[ch]: the tracks whose callback closed channel ch, in order
    \* output device
    spk,         \* holder of the device lock: "none", "ctl", "rnd"
    mixer,       \* ids of the streams registered with the device
    devRate,     \* sample rate of the last successful speaker.Init (0: none)
    \* threads
    cpc,         \* position of the control thread
    carg,        \* its pending argument
    rpc,         \* position of the render thread
    rarg,        \* the registered stream whose callback it runs
    \* observations
    ret,         \* the handler that returned last and what it returned
    untouched    \* no Play or Seek was issued since the last successful Load

pvars == << stream, format, ctrl, playing, endedCh, inited, mu, nstreams, open,
            pos, slen, paused, closers, spk, mixer, devRate, cpc, carg, rpc, rarg,
            ret, untouched >>

VARIABLES
    \* the filesystem
    files,       \* files[path]: the bytes and the modification time of the file
    clock,       \* the filesystem's clock
    cache,       \* the cache file at s.cachePath
    \* Scanner fields
    tracks,      \* s.tracks
    fileHashes,  \* s.fileHashes
    crashed,     \* the process has died of a run-time panic
    scanPaths,   \* s.scanPaths
    res,         \* the ScanResult returned last
    \* observations
    since        \* what happened to the filesystem since the last scan

svars == << files, clock, cache, tracks, fileHashes, crashed, scanPaths, res, since >>

VARIABLES
    \* one Track and the goroutines that call its accessors
    tmeta,       \* t.metadata: nil, or a Metadata with its Loaded flag
    rlocked,     \* the goroutines that hold t.metadataMu for reading
    wlocked,     \* the goroutine that holds t.metadataMu for writing, or 0
    apc,         \* apc[g]: position of goroutine g in its accessor call
    acalls,      \* acalls[g]: accessor calls of g that have returned
    \* observations
    extractions, \* the calls of extractMetadata that returned: TRUE for nil, FALSE for an error
    slowed       \* the goroutines that went on to t.metadataMu.Lock()

tvars == << tmeta, rlocked, wlocked, apc, acalls, extractions, slowed >>

VARIABLES
    \* the volume stages made by Load
    volSilent,   \* volSilent[c]: effects.Volume.Silent of the stage over ctrl c
    volVolume,   \* volVolume[c]: effects.Volume.Volume of that stage
    \* observations
    linear       \* the argument of the last SetVolume

vvars == << volSilent, volVolume, linear >>

vars == << pvars, svars, tvars, vvars >>

session == << stream, format, ctrl, playing, endedCh, inited >>
objects == << nstreams, open, pos, slen, paused, closers >>
device == << spk, mixer, devRate >>

Return(op, err, val) == [op |-> op, err |-> err, val |-> val]

\* New()
InitPlayer ==
    /\ stream = 0 /\ format = 0 /\ ctrl = 0 /\ playing = FALSE
    /\ endedCh = 0 /\ inited = FALSE /\ mu = "none"
    /\ nstreams = 0 /\ open = {}
    /\ pos = [s \in Ids |-> 0] /\ slen = [s \in Ids |-> 0]
    /\ paused = [s \in Ids |-> FALSE]
    /\ closers = [ch \in 0..MaxLoads |-> << >>]
    /\ spk = "none" /\ mixer = {} /\ devRate = 0
    /\ cpc = "idle" /\ carg = 0 /\ rpc = "idle" /\ rarg = 0
    /\ ret = [op |-> "New", err |-> "ok", val |-> 0]
    /\ untouched = FALSE

\* a Close that leaves the stream open
CloseStreamLeak(set, s) == set

\* stream.Close(): the stream leaves the open ones and its decoder state is
\* released (nothing reads the position or length of a closed stream)
CloseStream(set, s) == set \ {s}
Released(f, s) == [x \in Ids |-> IF x = s THEN 0 ELSE f[x]]

\* the control thread is between two calls and p.mu is free
Idle == cpc = "idle" /\ mu = "none"

(***************************************************************************)
(* Load                                                                    *)
(***************************************************************************)
\* a Load that forgets to reset the playing flag
LoadWireKeepsPlaying(s, rate, init) ==
    /\ format' = rate
    /\ ctrl' = s
    /\ paused' = [paused EXCEPT ![s] = TRUE]
    /\ stream' = s
    /\ endedCh' = s
    /\ playing' = playing
    /\ untouched' = TRUE
    /\ ret' = Return("Load", "ok", IF init THEN 1 ELSE 0)

\* the tail of Load once the device is configured (lines 58-74); the value
\* returned notes whether this Load has initialised the device
LoadWire(s, rate, init) ==
    /\ format' = rate
    /\ ctrl' = s
    /\ paused' = [paused EXCEPT ![s] = TRUE]
    /\ stream' = s
    /\ endedCh' = s
    /\ playing' = FALSE
    /\ untouched' = TRUE
    /\ ret' = Return("Load", "ok", IF init THEN 1 ELSE 0)

\* Load that initialises the device only the first time
NeedsInitFirstOnly(rate) == ~inited

\* !p.inited || p.format.SampleRate != format.SampleRate
NeedsInit(rate) == ~inited \/ format # rate

\* Load up to speaker.Init: close the old stream, open the new one
LoadCall(path, data) ==
    /\ Idle
    /\ LET r == Open(path, data)
           closed == CloseStream(open, stream)
           s == nstreams + 1
       IN  IF r.err # "ok"
           THEN /\ stream' = 0
                /\ open' = closed
                /\ pos' = Released(pos, stream)
                /\ slen' = Released(slen, stream)
                /\ ret' = Return("Load", r.err, 0)
                /\ UNCHANGED << format, ctrl, playing, endedCh, inited, mu, nstreams,
                                paused, closers, device, cpc, carg, untouched >>
           ELSE /\ s \in Ids
                /\ nstreams' = s
                /\ open' = closed \cup {s}
                /\ pos' = [Released(pos, stream) EXCEPT ![s] = 0]
                /\ slen' = [Released(slen, stream) EXCEPT ![s] = r.len]
                /\ IF NeedsInit(r.rate)
                   THEN /\ stream' = 0
                        /\ mu' = "ctl"
                        /\ cpc' = "load_init"
                        /\ carg' = r.rate
                        /\ UNCHANGED << format, ctrl, playing, endedCh, inited,
                                        paused, closers, device, ret, untouched >>
                   ELSE /\ LoadWire(s, r.rate, FALSE)
                        /\ UNCHANGED << inited, mu, closers, device, cpc, carg >>
    /\ UNCHANGED << rpc, rarg >>
    /\ UNCHANGED << svars, tvars, vvars >>

\* speaker.Init under the device lock, then the rest of Load.  Whether the
\* device keeps the streams registered before a re-initialisation is the
\* device's business: both outcomes are taken.
LoadInit(ok, keep) ==
    /\ cpc = "load_init"
    /\ spk = "none"
    /\ LET s == nstreams
       IN  IF ~ok
           THEN /\ open' = CloseStream(open, s)
                /\ pos' = Released(pos, s)
                /\ slen' = Released(slen, s)
                /\ ret' = Return("Load", "SpeakerInit", 0)
                /\ UNCHANGED << stream, format, ctrl, playing, endedCh, inited,
                                paused, mixer, devRate, untouched >>
           ELSE /\ inited' = TRUE
                /\ devRate' = carg
                /\ mixer' = IF keep THEN mixer ELSE {}
                /\ LoadWire(s, carg, TRUE)
                /\ UNCHANGED << open, pos, slen >>
    /\ mu' = "none"
    /\ cpc' = "idle"
    /\ carg' = 0
    /\ UNCHANGED << nstreams, closers, spk, rpc, rarg >>
    /\ UNCHANGED << svars, tvars, vvars >>

(***************************************************************************)
(* Play                                                                    *)
(***************************************************************************)
\* a Play that leaves the guard "if p.playing" untested
AlreadyPlayingIgnored == FALSE

\* if p.playing { return nil }
AlreadyPlaying == playing

\* Play up to speaker.Clear.  The value returned with "ok" tells how the call
\* ended: 0 submitted the stream, 1 found the session playing, 2 found it
\* playing right after another successful Play.
PlayCall ==
    /\ Idle
    /\ IF stream = 0
       THEN /\ ret' = Return("Play", "NoTrackLoaded", 0)
            /\ UNCHANGED << mu, cpc, untouched >>
       ELSE IF AlreadyPlaying
       THEN /\ ret' = Return("Play", "ok",
                             IF ret.op = "Play" /\ ret.err = "ok" THEN 2 ELSE 1)
            /\ UNCHANGED << mu, cpc >>
            /\ untouched' = FALSE
       ELSE /\ mu' = "ctl"
            /\ cpc' = "play_clear"
            /\ untouched' = FALSE
            /\ UNCHANGED ret
    /\ UNCHANGED << session, objects, device, carg, rpc, rarg >>
    /\ UNCHANGED << svars, tvars, vvars >>

\* speaker.Clear(); p.ctrl.Paused = false; p.playing = true
PlayClear ==
    /\ cpc = "play_clear"
    /\ spk = "none"
    /\ mixer' = {}
    /\ paused' = [paused EXCEPT ![ctrl] = FALSE]
    /\ playing' = TRUE
    /\ cpc' = "play_submit"
    /\ UNCHANGED << stream, format, ctrl, endedCh, inited, mu, nstreams, open, pos,
                    slen, closers, spk, devRate, carg, rpc, rarg, ret, untouched >>
    /\ UNCHANGED << svars, tvars, vvars >>

\* speaker.Play(beep.Seq(p.vol, beep.Callback(...)))
PlaySubmit ==
    /\ cpc = "play_submit"
    /\ spk = "none"
    /\ mixer' = mixer \cup {ctrl}
    /\ mu' = "none"
    /\ cpc' = "idle"
    /\ ret' = Return("Play", "ok", 0)
    /\ UNCHANGED << session, objects, spk, devRate, carg, rpc, rarg, untouched >>
    /\ UNCHANGED << svars, tvars, vvars >>

(***************************************************************************)
(* Pause, Toggle, Stop, Seek                                               *)
(***************************************************************************)
PauseCall ==
    /\ Idle
    /\ IF ctrl # 0
       THEN /\ mu' = "ctl"
            /\ cpc' = "pause_lock"
            /\ UNCHANGED ret
       ELSE /\ ret' = Return("Pause", "ok", 0)
            /\ UNCHANGED << mu, cpc >>
    /\ UNCHANGED << session, objects, device, carg, rpc, rarg, untouched >>
    /\ UNCHANGED << svars, tvars, vvars >>

\* speaker.Lock(); p.ctrl.Paused = true; speaker.Unlock(); p.playing = false
PauseLocked ==
    /\ cpc = "pause_lock"
    /\ spk = "none"
    /\ paused' = [paused EXCEPT ![ctrl] = TRUE]
    /\ playing' = FALSE
    /\ mu' = "none"
    /\ cpc' = "idle"
    /\ ret' = Return("Pause", "ok", 0)
    /\ UNCHANGED << stream, format, ctrl, endedCh, inited, nstreams, open, pos, slen,
                    closers, device, carg, rpc, rarg, untouched >>
    /\ UNCHANGED << svars, tvars, vvars >>

ToggleCall ==
    /\ Idle
    /\ IF ctrl = 0
       THEN /\ ret' = Return("Toggle", "NoTrackLoaded", 0)
            /\ UNCHANGED << mu, cpc >>
       ELSE /\ mu' = "ctl"
            /\ cpc' = "toggle_lock"
            /\ UNCHANGED ret
    /\ UNCHANGED << session, objects, device, carg, rpc, rarg, untouched >>
    /\ UNCHANGED << svars, tvars, vvars >>

\* p.ctrl.Paused = !p.ctrl.Paused; p.playing = !p.ctrl.Paused
ToggleLocked ==
    /\ cpc = "toggle_lock"
    /\ spk = "none"
    /\ paused' = [paused EXCEPT ![ctrl] = ~paused[ctrl]]
    /\ playing' = ~paused'[ctrl]
    /\ mu' = "none"
    /\ cpc' = "idle"
    /\ ret' = Return("Toggle", "ok", 0)
    /\ UNCHANGED << stream, format, ctrl, endedCh, inited, nstreams, open, pos, slen,
                    closers, device, carg, rpc, rarg, untouched >>
    /\ UNCHANGED << svars, tvars, vvars >>

\* a Seek that moves to the nearest position of the stream
StreamSeekClamped(s, n) ==
    IF s \notin open THEN [err |-> "SeekError", pos |-> pos]
    ELSE [err |-> "ok",
          pos |-> [pos EXCEPT ![s] = IF n < 0 THEN 0 ELSE IF n > slen[s] THEN slen[s] ELSE n]]

\* the decoders' Seek: a position outside 0..Len() is an error and moves nothing
StreamSeek(s, n) ==
    IF n < 0 \/ n > slen[s] \/ s \notin open
    THEN [err |-> "SeekError", pos |-> pos]
    ELSE [err |-> "ok", pos |-> [pos EXCEPT ![s] = n]]

StopCall ==
    /\ Idle
    /\ IF ctrl = 0 \/ stream = 0
       THEN /\ ret' = Return("Stop", "ok", 0)
            /\ UNCHANGED << mu, cpc >>
       ELSE /\ mu' = "ctl"
            /\ cpc' = "stop_lock"
            /\ UNCHANGED ret
    /\ UNCHANGED << session, objects, device, carg, rpc, rarg, untouched >>
    /\ UNCHANGED << svars, tvars, vvars >>

\* speaker.Lock(); p.ctrl.Paused = true; p.stream.Seek(0); speaker.Unlock();
\* p.playing = false
StopLocked ==
    /\ cpc = "stop_lock"
    /\ spk = "none"
    /\ paused' = [paused EXCEPT ![ctrl] = TRUE]
    /\ pos' = StreamSeek(stream, 0).pos
    /\ playing' = FALSE
    /\ cpc' = "stop_clear"
    /\ UNCHANGED << stream, format, ctrl, endedCh, inited, mu, nstreams, open, slen,
                    closers, device, carg, rpc, rarg, ret, untouched >>
    /\ UNCHANGED << svars, tvars, vvars >>

\* speaker.Clear()
StopClear ==
    /\ cpc = "stop_clear"
    /\ spk = "none"
    /\ mixer' = {}
    /\ mu' = "none"
    /\ cpc' = "idle"
    /\ ret' = Return("Stop", "ok", 0)
    /\ UNCHANGED << session, objects, spk, devRate, carg, rpc, rarg, untouched >>
    /\ UNCHANGED << svars, tvars, vvars >>

SeekCall(d) ==
    /\ Idle
    /\ IF stream = 0
       THEN /\ ret' = Return("Seek", "NoTrackLoaded", 0)
            /\ UNCHANGED << mu, cpc, carg, untouched >>
       ELSE /\ carg' = SampleRateN(format, d)
            /\ mu' = "ctl"
            /\ cpc' = "seek_lock"
            /\ untouched' = FALSE
            /\ UNCHANGED ret
    /\ UNCHANGED << session, objects, device, rpc, rarg >>
    /\ UNCHANGED << svars, tvars, vvars >>

\* speaker.Lock(); err := p.stream.Seek(samples); speaker.Unlock()
SeekLocked ==
    /\ cpc = "seek_lock"
    /\ spk = "none"
    /\ LET r == StreamSeek(stream, carg)
       IN  /\ pos' = r.pos
           /\ ret' = Return("Seek", r.err, 0)
    /\ mu' = "none"
    /\ cpc' = "idle"
    /\ carg' = 0
    /\ UNCHANGED << session, nstreams, open, slen, paused, closers, device, rpc, rarg,
                    untouched >>
    /\ UNCHANGED << svars, tvars, vvars >>

(***************************************************************************)
(* SetVolume                                                               *)
(***************************************************************************)
Unit == 4            \* a finite float64 x is kept as the integer x * Unit
MaxVolume == 4       \* largest linear volume given to SetVolume

\* float64 values: a finite number (in Units), NaN, or minus infinity
Float(q) == [kind |-> "num", q |-> q]
NaN == [kind |-> "nan", q |-> 0]
NegInf == [kind |-> "neginf", q |-> 0]

\* the arguments given to SetVolume: the multiples of 1 / Unit from -1 / Unit
\* to 1.0, the largest volume, and NaN
VolumeInputs == { Float(q) : q \in (-1)..Unit \cup { MaxVolume * Unit } } \cup { NaN }

\* a test x < 0 in the place of x <= 0
Negative(x) == x.kind = "neginf" \/ (x.kind = "num" /\ x.q < 0)

\* x <= 0 on float64: false for NaN
NotPositive(x) == x.kind = "neginf" \/ (x.kind = "num" /\ x.q <= 0)

VolumeBase == 2      \* effects.Volume.Base of the stage Load makes

RECURSIVE PowBase(_)
PowBase(n) == IF n = 0 THEN 1 ELSE VolumeBase * PowBase(n - 1)

\* VolumeBase^k <= q / Unit, and VolumeBase^k = q / Unit
PowAtMost(k, q) == IF k >= 0 THEN PowBase(k) * Unit <= q ELSE Unit <= q * PowBase(-k)
PowEquals(k, q) == IF k >= 0 THEN PowBase(k) * Unit = q ELSE Unit = q * PowBase(-k)

\* a value in logarithmic units: the whole number floor, or a number
\* strictly between floor and floor + 1 (exact false), NaN, or minus infinity
Gain(floor, exact) == [kind |-> "num", floor |-> floor, exact |-> exact]
ZeroGain == Gain(0, TRUE)
NaNGain == [kind |-> "nan", floor |-> 0, exact |-> FALSE]
NegInfGain == [kind |-> "neginf", floor |-> 0, exact |-> FALSE]

\* math.Log(x) / math.Log(p.vol.Base): the logarithm of a negative
\* number or of NaN is NaN, that of zero is minus infinity, that of 1 is 0
LogBase(x) ==
    IF x.kind # "num" \/ x.q < 0 THEN NaNGain
    ELSE IF x.q = 0 THEN NegInfGain
    ELSE LET k == CHOOSE e \in (-Unit)..(MaxVolume + 1) :
                      PowAtMost(e, x.q) /\ ~PowAtMost(e + 1, x.q)
         IN  Gain(k, PowEquals(k, x.q))

\* SetVolume(x).  The value returned tells whether the call found the stage
\* marked silent.
SetVolume(x) ==
    /\ Idle
    /\ IF ctrl = 0
       THEN UNCHANGED << volSilent, volVolume >>
       ELSE IF NotPositive(x)
       THEN /\ volSilent' = [volSilent EXCEPT ![ctrl] = TRUE]
            /\ volVolume' = [volVolume EXCEPT ![ctrl] = ZeroGain]
       ELSE /\ volSilent' = [volSilent EXCEPT ![ctrl] = FALSE]
            /\ volVolume' = [volVolume EXCEPT ![ctrl] = LogBase(x)]
    /\ linear' = x
    /\ ret' = Return("SetVolume", "ok", IF ctrl # 0 /\ volSilent[ctrl] THEN 1 ELSE 0)
    /\ UNCHANGED << session, mu, objects, device, cpc, carg, rpc, rarg, untouched >>
    /\ UNCHANGED << svars, tvars >>

(***************************************************************************)
(* Position, Duration, OnEnded (read-only under p.mu), Close               *)
(***************************************************************************)
\* what Position() returns in the current state
PositionValue ==
    IF stream = 0 THEN 0 ELSE SampleRateD(format, pos[stream])

\* what Duration() returns in the current state
DurationValue ==
    IF stream # 0 /\ slen[stream] > 0 THEN SampleRateD(format, slen[stream]) ELSE 0

\* what OnEnded() returns in the current state
OnEndedValue == endedCh

\* a Close that keeps the reference to the stream it has closed
StreamAfterCloseKept(s) == s

\* p.stream = nil
StreamAfterClose(s) == 0

\* Close returns what stream.Close() returned (closeOk: nil) if a stream was
\* open, and nil otherwise.  The value returned with it tells how the call
\* found the session: 1 with a stream, 2 with none right after another Close,
\* 0 with none otherwise.
Close(closeOk) ==
    /\ Idle
    /\ open' = CloseStream(open, stream)
    /\ pos' = Released(pos, stream)
    /\ slen' = Released(slen, stream)
    /\ stream' = StreamAfterClose(stream)
    /\ ret' = IF stream # 0
              THEN Return("Close", IF closeOk THEN "ok" ELSE "CloseError", 1)
              ELSE Return("Close", "ok", IF ret.op = "Close" THEN 2 ELSE 0)
    /\ UNCHANGED << format, ctrl, playing, endedCh, inited, mu, nstreams, paused,
                    closers, device, cpc, carg, rpc, rarg, untouched >>
    /\ UNCHANGED << svars, tvars, vvars >>

(***************************************************************************)
(* The render thread of the output device                                  *)
(***************************************************************************)
\* One render step under the device lock over beep.Seq(p.vol, Callback):
\* a paused ctrl streams silence, an unpaused one pulls samples from its stream.
RenderAdvance(e) ==
    /\ rpc = "idle"
    /\ spk = "none"
    /\ e \in mixer
    /\ ~paused[e]
    /\ e \in open
    /\ pos[e] < slen[e]
    /\ pos' = [pos EXCEPT ![e] = pos[e] + 1]
    /\ UNCHANGED << session, mu, nstreams, open, slen, paused, closers, device, cpc,
                    carg, rpc, rarg, ret, untouched >>
    /\ UNCHANGED << svars, tvars, vvars >>

\* the stream has nothing more to give (exhausted, or closed under the
\* device): Seq moves on to the callback, which has to take p.mu while the
\* render step holds the device lock
RenderDrained(e) ==
    /\ rpc = "idle"
    /\ spk = "none"
    /\ e \in mixer
    /\ ~paused[e]
    /\ e \notin open \/ pos[e] >= slen[e]
    /\ spk' = "rnd"
    /\ rpc' = "cb"
    /\ rarg' = e
    /\ UNCHANGED << session, mu, objects, mixer, devRate, cpc, carg, ret, untouched >>
    /\ UNCHANGED << svars, tvars, vvars >>

\* a callback whose select never takes the "already closed" case
SignalClosedNever(ch) == FALSE

\* case <-p.endedCh: the channel is already closed
SignalClosed(ch) == Len(closers[ch]) > 0

\* the completion callback of Play (lines 95-107), then the end of the render
\* step: the drained Seq leaves the mixer and the device lock is released
RenderCallback ==
    /\ rpc = "cb"
    /\ mu = "none"
    /\ IF playing
       THEN /\ playing' = FALSE
            /\ IF SignalClosed(endedCh)
               THEN /\ closers' = closers
                    /\ ret' = Return("Callback", "already", 0)
               ELSE /\ closers' = [closers EXCEPT ![endedCh] = Append(@, rarg)]
                    /\ ret' = Return("Callback", "closed", 0)
       ELSE /\ UNCHANGED << playing, closers >>
            /\ ret' = Return("Callback", "skipped", 0)
    /\ mixer' = mixer \ {rarg}
    /\ spk' = "none"
    /\ rpc' = "idle"
    /\ rarg' = 0
    /\ UNCHANGED << stream, format, ctrl, endedCh, inited, mu, nstreams, open, pos,
                    slen, paused, devRate, cpc, carg, untouched >>
    /\ UNCHANGED << svars, tvars, vvars >>

(***************************************************************************)
(* The filesystem the scanner walks                                        *)
(***************************************************************************)
MaxClock == 2        \* writes to the filesystem in one run

\* the roots given to NewScanner
ScanPaths == << NameQ, NameR >>

\* the directory tree: q/ is empty, r/ holds S/, a.mp3 and n.txt, and r/S/
\* holds B.WAV
Dirs == { NameQ, NameR, Join(NameR, NameS) }
SubDirs(dir) == IF dir = NameR THEN { NameS } ELSE {}
FileNames(dir) ==
    IF dir = NameR THEN { NameA, NameN }
    ELSE IF dir = Join(NameR, NameS) THEN { NameB }
    ELSE {}
FilePaths == UNION { { Join(d, n) : n \in FileNames(d) } : d \in Dirs }

\* s.extensions: ".mp3", ".wav", ".flac"
extensions == { << 46, 109, 112, 51 >>, << 46, 119, 97, 118 >>,
                << 46, 102, 108, 97, 99 >> }

NoFile == [data |-> Missing, mtime |-> 0]

\* the paths with an extension of s.extensions: the files that come and go
AudioPaths == { q \in FilePaths : ToLower(Ext(q)) \in extensions }

\* a file with another extension, which the scanner never opens
OtherFile == [data |-> 0, mtime |-> 0]

\* os.Stat(path) succeeds
Exists(path) == path \in FilePaths /\ files[path].data # Missing

\* info.Size(): the bytes of content c
SizeOf(c) == c + 10

\* the order of os.ReadDir: by file name, byte by byte
RECURSIVE LexLess(_, _)
LexLess(a, b) ==
    IF a = << >> THEN b # << >>
    ELSE IF b = << >> THEN FALSE
    ELSE IF a[1] # b[1] THEN a[1] < b[1]
    ELSE LexLess(Tail(a), Tail(b))

RECURSIVE SortNames(_)
SortNames(S) ==
    IF S = {} THEN << >>
    ELSE LET m == CHOOSE x \in S : \A y \in S \ {x} : LexLess(x, y)
         IN  << m >> \o SortNames(S \ {m})

\* os.ReadDir(dir): the entries of the directory, sorted
ReadDir(dir) ==
    LET d == Clean(dir)
    IN  SortNames({ n \in FileNames(d) : Exists(d \o << Slash >> \o n) } \cup SubDirs(d))

(***************************************************************************)
(* Track (playlist/track.go)                                               *)
(***************************************************************************)
\* generateID: hash = ((hash << 5) - hash + char) & 0xffffffff over the path.
\* The 32-bit value is kept as its two 16-bit halves << high, low >>.
Half == 65536

RECURSIVE generateIDFrom(_, _, _)
generateIDFrom(path, i, hash) ==
    IF i > Len(path) THEN hash
    ELSE LET low == hash[2] * 32 - hash[2] + path[i]
             high == hash[1] * 32 - hash[1] + (low \div Half)
         IN  generateIDFrom(path, i + 1, << high % Half, low % Half >>)

generateID(path) == generateIDFrom(path, 1, << 0, 0 >>)

\* the metadata pointer of a Track: nil, or a Metadata with its Loaded flag
NilMetadata == [nil |-> TRUE, Loaded |-> FALSE]
Metadata(loaded) == [nil |-> FALSE, Loaded |-> loaded]

NewTrack(path, duration, size, modified) ==
    [ ID |-> generateID(path), Path |-> path, Filename |-> Base(path),
      Duration |-> duration, Format |-> ToLower(Ext(path)), Size |-> size,
      Modified |-> modified, metadata |-> Metadata(FALSE) ]

\* json.Marshal of a Track: the metadata field is tagged json:"-"
MarshalTrack(t) ==
    [ id |-> t.ID, path |-> t.Path, filename |-> t.Filename, duration |-> t.Duration,
      format |-> t.Format, size |-> t.Size, modified |-> t.Modified ]

\* json.Unmarshal into a new Track: the metadata pointer stays nil
UnmarshalTrack(j) ==
    [ ID |-> j.id, Path |-> j.path, Filename |-> j.filename, Duration |-> j.duration,
      Format |-> j.format, Size |-> j.size, Modified |-> j.modified,
      metadata |-> NilMetadata ]

(***************************************************************************)
(* Scanner (playlist/scanner.go)                                           *)
(***************************************************************************)
EmptyMap == [x \in {} |-> 0]

\* the hash of a file that cannot be read: ""
NoHash == 0

\* the MD5 digest of content c, in hex
Md5(c) == c + 1

calculateFileHash(path) ==
    IF Exists(path) THEN Md5(files[path].data) ELSE NoHash

hasFileChanged(hashes, path) ==
    IF path \notin DOMAIN hashes THEN TRUE
    ELSE calculateFileHash(path) # hashes[path]

\* a lookup that finds no track
findTrackByPathNever(trks, path) == 0

\* the index of the first track with the path, 0 for nil
findTrackByPath(trks, path) ==
    IF \E i \in 1..Len(trks) : trks[i].Path = path
    THEN CHOOSE i \in 1..Len(trks) :
             /\ trks[i].Path = path
             /\ \A k \in 1..(i - 1) : trks[k].Path # path
    ELSE 0

getAudioDuration(path) ==
    LET r == Open(path, IF Exists(path) THEN files[path].data ELSE Missing)
    IN  IF r.err # "ok" THEN [err |-> TRUE, duration |-> 0]
        ELSE IF r.len > 0 THEN [err |-> FALSE, duration |-> SampleRateD(r.rate, r.len)]
        ELSE [err |-> FALSE, duration |-> 0]

SetHash(hashes, path, h) == (path :> h) @@ hashes

\* The state of a scan in progress: the scanner's tracks and hashes, the
\* counters and diagnostics of the ScanResult, and whether the scan panicked.
ScanError(kind, path) == [kind |-> kind, path |-> path]

\* createTrack whose failure leaves no diagnostic
createTrackSilent(st, path) ==
    LET d == getAudioDuration(path)
    IN  IF ~Exists(path) \/ d.err THEN st
        ELSE [st EXCEPT
                !.tracks = Append(@, NewTrack(path, d.duration, SizeOf(files[path].data),
                                              files[path].mtime)),
                !.hashes = SetHash(@, path, calculateFileHash(path)),
                !.new = @ + 1]

createTrack(st, path) ==
    LET d == getAudioDuration(path)
    IN  IF ~Exists(path) \/ d.err
        THEN [st EXCEPT !.errors = Append(@, ScanError("process", path))]
        ELSE [st EXCEPT
                !.tracks = Append(@, NewTrack(path, d.duration, SizeOf(files[path].data),
                                              files[path].mtime)),
                !.hashes = SetHash(@, path, calculateFileHash(path)),
                !.new = @ + 1]

\* updateTrack: track.metadata.Loaded = false dereferences the metadata pointer
updateTrack(st, i, path) ==
    LET d == getAudioDuration(path)
    IN  IF ~Exists(path) \/ d.err
        THEN [st EXCEPT !.errors = Append(@, ScanError("process", path))]
        ELSE IF st.tracks[i].metadata.nil
        THEN [st EXCEPT !.panic = TRUE]
        ELSE [st EXCEPT
                !.tracks[i].Duration = d.duration,
                !.tracks[i].Size = SizeOf(files[path].data),
                !.tracks[i].Modified = files[path].mtime,
                !.tracks[i].metadata = Metadata(FALSE),
                !.hashes = SetHash(@, path, calculateFileHash(path)),
                !.updated = @ + 1]

processAudioFile(st, dir, name) ==
    LET fullPath == Join(dir, name)
        i == findTrackByPath(st.tracks, fullPath)
    IN  IF i # 0
        THEN IF ~hasFileChanged(st.hashes, fullPath) THEN st
             ELSE updateTrack(st, i, fullPath)
        ELSE createTrack(st, fullPath)

\* scanDirectory over the entries from the k-th on; denied are the
\* directories os.ReadDir fails on; a panic ends the walk
RECURSIVE scanEntries(_, _, _, _, _)
scanEntries(st, dir, entries, k, denied) ==
    IF st.panic \/ k > Len(entries) THEN st
    ELSE LET name == entries[k]
             subPath == Join(dir, name)
             next == IF name \in SubDirs(Clean(dir))
                     THEN IF subPath \in denied
                          THEN [st EXCEPT !.errors = Append(@, ScanError("subdir", subPath))]
                          ELSE scanEntries(st, subPath, ReadDir(subPath), 1, denied)
                     ELSE IF ToLower(Ext(name)) \notin extensions THEN st
                     ELSE processAudioFile(st, dir, name)
         IN  scanEntries(next, dir, entries, k + 1, denied)

\* scanDirectory on a directory os.ReadDir can read
scanDirectory(st, dir, denied) == scanEntries(st, dir, ReadDir(dir), 1, denied)

\* the loop of Scan over s.scanPaths
RECURSIVE scanRoots(_, _, _)
scanRoots(st, k, denied) ==
    IF st.panic \/ k > Len(scanPaths) THEN st
    ELSE LET root == scanPaths[k]
             next == IF Clean(root) \in denied
                     THEN [st EXCEPT !.errors = Append(@, ScanError("scan", root))]
                     ELSE scanDirectory(st, root, denied)
         IN  scanRoots(next, k + 1, denied)

\* removeDeletedTracks without result.RemovedTracks++
removeDeletedTracksUncounted(st) ==
    LET gone == { st.tracks[i].Path : i \in { k \in 1..Len(st.tracks) :
                                                 ~Exists(st.tracks[k].Path) } }
        kept(t) == Exists(t.Path)
    IN  [st EXCEPT
           !.tracks = SelectSeq(@, kept),
           !.hashes = [q \in (DOMAIN @) \ gone |-> @[q]]]

\* removeDeletedTracks without delete(s.fileHashes, track.Path)
removeDeletedTracksKeepsHashes(st) ==
    LET kept(t) == Exists(t.Path)
    IN  [st EXCEPT
           !.tracks = SelectSeq(@, kept),
           !.removed = @ + (Len(st.tracks) - Len(SelectSeq(st.tracks, kept)))]

removeDeletedTracks(st) ==
    LET gone == { st.tracks[i].Path : i \in { k \in 1..Len(st.tracks) :
                                                 ~Exists(st.tracks[k].Path) } }
        kept(t) == Exists(t.Path)
    IN  [st EXCEPT
           !.tracks = SelectSeq(@, kept),
           !.hashes = [q \in (DOMAIN @) \ gone |-> @[q]],
           !.removed = @ + (Len(st.tracks) - Len(SelectSeq(st.tracks, kept)))]

\* loadCache: no file leaves the scanner as it is, a file that does not parse
\* is an error, and a parsed file replaces the tracks and the hashes
loadCache ==
    IF cache.state = "valid"
    THEN [err |-> FALSE,
          tracks |-> [i \in 1..Len(cache.tracks) |-> UnmarshalTrack(cache.tracks[i])],
          hashes |-> cache.file_hashes]
    ELSE [err |-> cache.state = "corrupt", tracks |-> tracks, hashes |-> fileHashes]

\* what saveCache writes
CacheFile(trks, hashes) ==
    [state |-> "valid",
     tracks |-> [i \in 1..Len(trks) |-> MarshalTrack(trks[i])],
     file_hashes |-> hashes]

NoCache == [state |-> "absent", tracks |-> << >>, file_hashes |-> EmptyMap]

\* the ScanResult, the handler it came from and the directories that could
\* not be read while it was made
ScanResult(op, st, panic, denied) ==
    [op |-> op, panic |-> panic, total |-> Len(st.tracks), new |-> st.new,
     updated |-> st.updated, removed |-> st.removed, errors |-> st.errors,
     denied |-> denied]

\* the scan state after loadCache in Scan
ScanStart ==
    LET c == loadCache
    IN  [tracks |-> c.tracks, hashes |-> c.hashes, new |-> 0, updated |-> 0,
         removed |-> 0, panic |-> FALSE,
         errors |-> IF c.err THEN << ScanError("load", << >>) >> ELSE << >>]

\* Scan() from loadCache to the return: what it leaves in the scanner and in
\* the cache file and the state its result is made of.  saveOk tells whether
\* saveCache can write the cache file.  A run-time panic kills the process
\* before the cache is saved.
ScanOutcome(saveOk, denied) ==
    LET walked == scanRoots(ScanStart, 1, denied)
        swept == removeDeletedTracks(walked)
        saved == IF saveOk THEN swept
                 ELSE [swept EXCEPT !.errors = Append(@, ScanError("save", << >>))]
    IN  IF walked.panic
        THEN [panic |-> TRUE, tracks |-> << >>, hashes |-> EmptyMap, cache |-> cache,
              st |-> [walked EXCEPT !.tracks = << >>]]
        ELSE [panic |-> FALSE, tracks |-> saved.tracks, hashes |-> saved.hashes,
              cache |-> IF saveOk THEN CacheFile(saved.tracks, saved.hashes) ELSE cache,
              st |-> saved]

\* scanForNewFiles over the entries of one root from the k-th on: directories
\* are skipped and a file that createTrack fails on is passed over in silence
RECURSIVE newEntries(_, _, _, _)
newEntries(st, dir, entries, k) ==
    IF k > Len(entries) THEN st
    ELSE LET name == entries[k]
             fullPath == Join(dir, name)
             made == createTrack(st, fullPath)
             next == IF name \in SubDirs(Clean(dir)) THEN st
                     ELSE IF ToLower(Ext(name)) \notin extensions THEN st
                     ELSE IF findTrackByPath(st.tracks, fullPath) # 0 THEN st
                     ELSE [made EXCEPT !.errors = st.errors]
         IN  newEntries(next, dir, entries, k + 1)

\* the loop of scanForNewFiles over s.scanPaths
RECURSIVE scanForNewFiles(_, _, _)
scanForNewFiles(st, k, denied) ==
    IF k > Len(scanPaths) THEN st
    ELSE LET root == scanPaths[k]
             next == IF Clean(root) \in denied THEN st
                     ELSE newEntries(st, root, ReadDir(root), 1)
         IN  scanForNewFiles(next, k + 1, denied)

\* IncrementalScan that takes no file for changed
AnyFileChangedNever(trks, hashes) == FALSE

\* the loop of IncrementalScan over the loaded tracks
AnyFileChanged(trks, hashes) ==
    \E i \in 1..Len(trks) : hasFileChanged(hashes, trks[i].Path)

\* IncrementalScan() from loadCache to the return
IncrementalOutcome(saveOk, denied) ==
    LET c == loadCache
        start == [tracks |-> c.tracks, hashes |-> c.hashes, new |-> 0, updated |-> 0,
                  removed |-> 0, panic |-> FALSE, errors |-> << >>]
        added == scanForNewFiles(start, 1, denied)
        saved == IF added.new > 0 /\ ~saveOk
                 THEN [added EXCEPT !.errors = Append(@, ScanError("save", << >>))]
                 ELSE added
    IN  IF c.err \/ AnyFileChanged(c.tracks, c.hashes)
        THEN ScanOutcome(saveOk, denied)
        ELSE [panic |-> FALSE, tracks |-> saved.tracks, hashes |-> saved.hashes,
              cache |-> IF added.new > 0 /\ saveOk
                        THEN CacheFile(saved.tracks, saved.hashes) ELSE cache,
              st |-> saved]

NoChange == [n |-> 0, del |-> << >>]
OtherChange == [n |-> 2, del |-> << >>]

\* a scan returns (or the process dies in it)
Returns(op, out, denied) ==
    /\ ~crashed
    /\ crashed' = out.panic
    /\ tracks' = out.tracks
    /\ fileHashes' = out.hashes
    /\ cache' = out.cache
    /\ res' = ScanResult(op, out.st, out.panic, denied)
    /\ since' = NoChange
    /\ UNCHANGED << files, clock, scanPaths, pvars, tvars, vvars >>

Scan(saveOk, denied) == Returns("Scan", ScanOutcome(saveOk, denied), denied)

IncrementalScan(saveOk, denied) ==
    Returns("IncrementalScan", IncrementalOutcome(saveOk, denied), denied)

\* NewScanner: a (new) process starts with an empty catalog
NewScanner ==
    /\ tracks' = << >>
    /\ fileHashes' = EmptyMap
    /\ crashed' = FALSE
    /\ UNCHANGED << files, clock, cache, res, since, scanPaths, pvars, tvars, vvars >>

\* Artist(), Album(), Genre() or Year() on the i-th track: loadMetadata
\* leaves the track with a Metadata whose Loaded flag is set
AccessMetadata(i) ==
    /\ ~crashed
    /\ i \in 1..Len(tracks)
    /\ tracks' = [tracks EXCEPT ![i].metadata = Metadata(TRUE)]
    /\ UNCHANGED << files, clock, cache, fileHashes, crashed, res, since, scanPaths, pvars, tvars, vvars >>

\* the environment writes a file
WriteFile(path, c) ==
    /\ clock < MaxClock
    /\ clock' = clock + 1
    /\ files' = [files EXCEPT ![path] = [data |-> c, mtime |-> clock + 1]]
    /\ since' = OtherChange
    /\ UNCHANGED << cache, tracks, fileHashes, crashed, res, scanPaths, pvars, tvars, vvars >>

\* the environment removes a file; since notes the removal of one file of the
\* catalog as the only change after a scan
DeleteFile(path) ==
    /\ Exists(path)
    /\ files' = [files EXCEPT ![path] = NoFile]
    /\ since' = IF since.n = 0 /\ ~crashed /\ res.op # "none" /\ ~res.panic
                   /\ findTrackByPath(tracks, path) # 0
                THEN [n |-> 1, del |-> path]
                ELSE OtherChange
    /\ UNCHANGED << clock, cache, tracks, fileHashes, crashed, res, scanPaths, pvars, tvars, vvars >>

\* the cache file is overwritten with bytes that are no JSON document
CorruptCache ==
    /\ cache.state # "corrupt"
    /\ cache' = [state |-> "corrupt", tracks |-> << >>, file_hashes |-> EmptyMap]
    /\ since' = OtherChange
    /\ UNCHANGED << files, clock, tracks, fileHashes, crashed, res, scanPaths, pvars, tvars, vvars >>

InitCatalog ==
    /\ files = [q \in FilePaths |-> IF q \in AudioPaths THEN NoFile ELSE OtherFile]
    /\ clock = 0
    /\ cache = NoCache
    /\ tracks = << >>
    /\ fileHashes = EmptyMap
    /\ crashed = FALSE
    /\ res = [op |-> "none", panic |-> FALSE, total |-> 0, new |-> 0, updated |-> 0,
              removed |-> 0, errors |-> << >>, denied |-> {}]
    /\ since = NoChange

\* NewScanner(ScanPaths) in a tree without audio files and without a cache
InitScanner == InitCatalog /\ scanPaths = ScanPaths

\* configurations of roots: two directories apart, the same root twice, a
\* root inside the other (in both orders), and the same directory spelled
\* "r" and "r/", or "./r" and "r"
RootConfigs ==
    { << NameQ, NameR >>,
      << NameR, NameR >>,
      << NameR, Join(NameR, NameS) >>,
      << Join(NameR, NameS), NameR >>,
      << NameR, NameR \o << Slash >> >>,
      << << Dot, Slash >> \o NameR, NameR >> }

\* NewScanner(roots) for one of the configurations
InitRootConfigs == InitCatalog /\ scanPaths \in RootConfigs

(***************************************************************************)
(* Track accessors called concurrently (playlist/track.go)                 *)
(***************************************************************************)
MaxGoroutines == 2   \* goroutines that call the accessors of the track
MaxCalls == 2        \* accessor calls of one goroutine

Goroutines == 1..MaxGoroutines

\* sync.RWMutex: RLock waits for the writer, Lock for the writer and the readers
CanRLock == wlocked = 0
CanLock == wlocked = 0 /\ rlocked = {}

\* loadMetadata's second test, under the write lock, taken for false
DoubleCheckSkipped == FALSE

\* t.metadata != nil && t.metadata.Loaded under the write lock
DoubleCheck == ~tmeta.nil /\ tmeta.Loaded

\* Artist(), Album(), Genre() or Year() calls loadMetadata: t.metadataMu.RLock()
AccessorCall(g) ==
    /\ apc[g] = "idle"
    /\ acalls[g] < MaxCalls
    /\ CanRLock
    /\ rlocked' = rlocked \cup {g}
    /\ apc' = [apc EXCEPT ![g] = "check"]
    /\ UNCHANGED << tmeta, wlocked, acalls, extractions, slowed, pvars, svars, vvars >>

\* the test under the read lock and RUnlock: return, or go on to Lock
FirstCheck(g) ==
    /\ apc[g] = "check"
    /\ rlocked' = rlocked \ {g}
    /\ IF ~tmeta.nil /\ tmeta.Loaded
       THEN /\ apc' = [apc EXCEPT ![g] = "loaded"]
            /\ UNCHANGED slowed
       ELSE /\ apc' = [apc EXCEPT ![g] = "lock"]
            /\ slowed' = slowed \cup {g}
    /\ UNCHANGED << tmeta, wlocked, acalls, extractions, pvars, svars, vvars >>

\* t.metadataMu.Lock(), the second test, the Metadata made if there is none,
\* and the call of extractMetadata
LockAndCheck(g) ==
    /\ apc[g] = "lock"
    /\ CanLock
    /\ IF DoubleCheck
       THEN /\ apc' = [apc EXCEPT ![g] = "loaded"]
            /\ UNCHANGED << tmeta, wlocked, extractions >>
       ELSE /\ wlocked' = g
            /\ tmeta' = IF tmeta.nil THEN Metadata(FALSE) ELSE tmeta
            /\ apc' = [apc EXCEPT ![g] = "extract"]
            /\ UNCHANGED extractions
    /\ UNCHANGED << rlocked, acalls, slowed, pvars, svars, vvars >>

\* extractMetadata returns, with an error or without: t.metadata.Loaded = true
\* and the deferred Unlock
extractMetadata(g, ok) ==
    /\ apc[g] = "extract"
    /\ extractions' = Append(extractions, ok)
    /\ tmeta' = Metadata(TRUE)
    /\ wlocked' = 0
    /\ apc' = [apc EXCEPT ![g] = "loaded"]
    /\ UNCHANGED << rlocked, acalls, slowed, pvars, svars, vvars >>

\* back in the accessor: t.metadataMu.RLock() to read the field
FieldRLock(g) ==
    /\ apc[g] = "loaded"
    /\ CanRLock
    /\ rlocked' = rlocked \cup {g}
    /\ apc' = [apc EXCEPT ![g] = "field"]
    /\ UNCHANGED << tmeta, wlocked, acalls, extractions, slowed, pvars, svars, vvars >>

\* the field is read and the accessor returns (deferred RUnlock)
AccessorReturn(g) ==
    /\ apc[g] = "field"
    /\ rlocked' = rlocked \ {g}
    /\ acalls' = [acalls EXCEPT ![g] = @ + 1]
    /\ apc' = [apc EXCEPT ![g] = "idle"]
    /\ UNCHANGED << tmeta, wlocked, extractions, slowed, pvars, svars, vvars >>

\* updateTrack on the Track, run by the goroutine that scans:
\* track.metadata.Loaded = false, with no call of t.metadataMu.Lock(); on a
\* Track whose metadata is nil the write is a nil dereference and the
\* process dies
ResetLoaded ==
    /\ ~crashed
    /\ IF tmeta.nil
       THEN crashed' = TRUE /\ UNCHANGED tmeta
       ELSE tmeta' = Metadata(FALSE) /\ UNCHANGED crashed
    /\ UNCHANGED << rlocked, wlocked, apc, acalls, extractions, slowed >>
    /\ UNCHANGED << files, clock, cache, tracks, fileHashes, scanPaths, res, since,
                    pvars, vvars >>

\* no goroutine is in an accessor
InitAccessors ==
    /\ rlocked = {}
    /\ wlocked = 0
    /\ apc = [g \in Goroutines |-> "idle"]
    /\ acalls = [g \in Goroutines |-> 0]
    /\ extractions = << >>
    /\ slowed = {}

\* the Track of NewTrack
InitTrack == tmeta = Metadata(FALSE) /\ InitAccessors

\* the stages Load will make: Volume 0.0, Silent false
InitVolume ==
    /\ volSilent = [c \in Ids |-> FALSE]
    /\ volVolume = [c \in Ids |-> ZeroGain]
    /\ linear = Float(Unit)

Init == InitPlayer /\ InitScanner /\ InitTrack /\ InitVolume

\* a scanner over one of the configurations of roots
InitRoots == InitPlayer /\ InitRootConfigs /\ InitTrack /\ InitVolume

\* a Track of NewTrack or of loadCache (whose metadata is nil)
InitMeta ==
    /\ InitPlayer /\ InitScanner /\ InitVolume
    /\ tmeta \in { Metadata(FALSE), NilMetadata }
    /\ InitAccessors

(***************************************************************************)
(* Specification of the playback session                                   *)
(***************************************************************************)
Next ==
    \/ \E path \in LoadPaths, data \in Contents \cup {Missing} : LoadCall(path, data)
    \/ \E ok \in BOOLEAN, keep \in BOOLEAN : LoadInit(ok, keep)
    \/ PlayCall
    \/ PlayClear
    \/ PlaySubmit
    \/ PauseCall
    \/ PauseLocked
    \/ ToggleCall
    \/ ToggleLocked
    \/ StopCall
    \/ StopLocked
    \/ StopClear
    \/ \E d \in SeekTargets : SeekCall(d)
    \/ SeekLocked
    \/ \E closeOk \in BOOLEAN : Close(closeOk)
    \/ \E e \in Ids : RenderAdvance(e)
    \/ \E e \in Ids : RenderDrained(e)
    \/ RenderCallback

Spec == Init /\ [][Next]_vars

(***************************************************************************)
(* Specification of the volume stage of the session                        *)
(***************************************************************************)
NextVolume ==
    \/ \E path \in LoadPaths, data \in Contents \cup {Missing} : LoadCall(path, data)
    \/ \E ok \in BOOLEAN, keep \in BOOLEAN : LoadInit(ok, keep)
    \/ \E x \in VolumeInputs : SetVolume(x)
    \/ \E closeOk \in BOOLEAN : Close(closeOk)

SpecVolume == Init /\ [][NextVolume]_vars

(***************************************************************************)
(* Specification of the catalog scanner                                    *)
(***************************************************************************)
NextScan ==
    \/ \E saveOk \in BOOLEAN : Scan(saveOk, {})
    \/ \E saveOk \in BOOLEAN : IncrementalScan(saveOk, {})
    \/ NewScanner
    \/ \E i \in 1..Len(tracks) : AccessMetadata(i)
    \/ \E path \in AudioPaths, c \in Contents : WriteFile(path, c)
    \/ \E path \in AudioPaths : DeleteFile(path)
    \/ CorruptCache

SpecScan == Init /\ [][NextScan]_vars

(***************************************************************************)
(* Specification of the catalog alone: the scans, the files and the cache  *)
(* file, without the accessors of the tracks                               *)
(***************************************************************************)
NextCatalog ==
    \/ \E saveOk \in BOOLEAN : Scan(saveOk, {})
    \/ \E saveOk \in BOOLEAN : IncrementalScan(saveOk, {})
    \/ NewScanner
    \/ \E path \in AudioPaths, c \in Contents : WriteFile(path, c)
    \/ \E path \in AudioPaths : DeleteFile(path)
    \/ CorruptCache

SpecCatalog == Init /\ [][NextCatalog]_vars

(***************************************************************************)
(* Specification of the catalog scanner over directories that cannot       *)
(* always be read                                                          *)
(***************************************************************************)
NextFail ==
    \/ \E saveOk \in BOOLEAN, denied \in SUBSET Dirs : Scan(saveOk, denied)
    \/ NewScanner
    \/ \E path \in AudioPaths, c \in Contents : WriteFile(path, c)
    \/ \E path \in AudioPaths : DeleteFile(path)

SpecFail == Init /\ [][NextFail]_vars

(***************************************************************************)
(* Specification of the catalog scanner over the configurations of roots,  *)
(* with a cache file that only the scanner writes                          *)
(***************************************************************************)
NextRoots ==
    \/ \E saveOk \in BOOLEAN : Scan(saveOk, {})
    \/ \E saveOk \in BOOLEAN : IncrementalScan(saveOk, {})
    \/ NewScanner
    \/ \E path \in AudioPaths, c \in Contents : WriteFile(path, c)
    \/ \E path \in AudioPaths : DeleteFile(path)

SpecRoots == InitRoots /\ [][NextRoots]_vars

(***************************************************************************)
(* Specification of the accessors of one Track called concurrently         *)
(***************************************************************************)
NextMeta ==
    \/ \E g \in Goroutines : AccessorCall(g)
    \/ \E g \in Goroutines : FirstCheck(g)
    \/ \E g \in Goroutines : LockAndCheck(g)
    \/ \E g \in Goroutines, ok \in BOOLEAN : extractMetadata(g, ok)
    \/ \E g \in Goroutines : FieldRLock(g)
    \/ \E g \in Goroutines : AccessorReturn(g)

SpecMeta == InitMeta /\ [][NextMeta]_vars

(***************************************************************************)
(* Specification of the accessors of one Track called while the scanner    *)
(* updates the Track                                                       *)
(***************************************************************************)
NextReset ==
    \/ \E g \in Goroutines : ~crashed /\ AccessorCall(g)
    \/ \E g \in Goroutines : ~crashed /\ FirstCheck(g)
    \/ \E g \in Goroutines : ~crashed /\ LockAndCheck(g)
    \/ \E g \in Goroutines, ok \in BOOLEAN : ~crashed /\ extractMetadata(g, ok)
    \/ \E g \in Goroutines : ~crashed /\ FieldRLock(g)
    \/ \E g \in Goroutines : ~crashed /\ AccessorReturn(g)
    \/ ResetLoaded

SpecReset == InitMeta /\ [][NextReset]_vars

(***************************************************************************)
(* Properties of the playback session                                      *)
(***************************************************************************)
TypeOK ==
    /\ stream \in 0..MaxLoads /\ ctrl \in 0..MaxLoads
    /\ Cardinality(mixer) <= 1
    /\ (stream # 0 => ctrl = stream)
    /\ (mu = "ctl") = (cpc # "idle")
    /\ (spk = "rnd") = (rpc = "cb")

\* the control thread holds p.mu inside Play, Pause, Toggle, Stop or Seek and
\* waits for the device
InTransport ==
    cpc \in {"play_clear", "play_submit", "pause_lock", "toggle_lock",
             "stop_lock", "stop_clear", "seek_lock"}

\* C2: no deadlock: a transport operation never waits for the device lock under
\* p.mu while the render step, holding the device lock, waits for p.mu in the
\* completion callback (from that state neither of them ever returns)
C2_NoDeadlock == ~(InTransport /\ mu = "ctl" /\ rpc = "cb" /\ spk = "rnd")

\* C3: a completion callback registered by a Play of a track other than the
\* one the current signal was issued for neither closes a signal nor clears
\* the playing flag
C3_StaleCallbackHarmless ==
    [][(RenderCallback /\ rarg # endedCh) => (playing' = playing /\ closers' = closers)]_vars

\* C4: no completion signal is closed twice, and a callback that finds
\* playing = false changes neither the playing flag nor any signal
C4_ClosedAtMostOnce ==
    [][ /\ \A ch \in 0..MaxLoads : Len(closers'[ch]) <= 1
        /\ (RenderCallback /\ ~playing) => (playing' = playing /\ closers' = closers) ]_vars

\* the callback ran for a Play issued again after the natural end, and ran
\* into the signal it had closed the first time
C4_Witness == ret.op = "Callback" /\ ret.err = "already" /\ Len(closers[endedCh]) = 1

\* C5: once Stop() has returned, playing is false and Position() returns zero
C5_StopResets ==
    (ret.op = "Stop" /\ cpc = "idle") => (~playing /\ PositionValue = 0)

\* C6: with no stream open, Toggle() returns NoTrackLoaded and leaves the
\* playing flag and the pause flags as they are
C6_ToggleNeedsStream ==
    [][(ToggleCall /\ stream = 0) =>
         /\ cpc' = "idle"
         /\ ret' = Return("Toggle", "NoTrackLoaded", 0)
         /\ playing' = playing /\ paused' = paused]_vars

\* C7: with a track loaded, a successful Toggle() inverts the playing flag and
\* the pause flag
C7_ToggleInverts ==
    [][(ToggleLocked /\ stream # 0) =>
         (playing' = ~playing /\ paused'[ctrl] = ~paused[ctrl])]_vars

\* C8: a Play() right after a successful Play() returns no error, takes no
\* device step and leaves the session, its streams and the device unchanged
C8_PlayIdempotent ==
    [][(PlayCall /\ ret.op = "Play" /\ ret.err = "ok") =>
         /\ cpc' = "idle" /\ mu' = mu
         /\ ret'.op = "Play" /\ ret'.err = "ok"
         /\ UNCHANGED << session, objects, device >>]_vars

\* a second Play() has returned right after a successful first one
C8_Witness ==
    /\ ret = Return("Play", "ok", 2)
    /\ playing /\ stream \in mixer /\ cpc = "idle"

\* C9: when a successful Load has returned the session is paused and not
\* playing and its completion signal is new and not closed; Position()
\* returns zero as long as no Play or Seek is issued after the Load
C9_LoadLeavesPaused ==
    /\ (ret.op = "Load" /\ ret.err = "ok" /\ cpc = "idle") =>
          /\ stream # 0 /\ paused[ctrl] /\ ~playing
          /\ endedCh = nstreams /\ ~SignalClosed(endedCh)
    /\ untouched => PositionValue = 0

\* a Load has succeeded while the previous track was playing: that track is
\* still registered with the device, unpaused and past its start
C9_Witness ==
    /\ ret.op = "Load" /\ ret.err = "ok" /\ cpc = "idle" /\ untouched
    /\ \E e \in mixer : e # stream /\ ~paused[e]

\* C10: at most one stream opened by the session is open, it is the session's
\* (or the one Load is about to install), and a failed Load leaves none open
C10_OneStreamOpen ==
    /\ Cardinality(open) <= 1
    /\ open \subseteq (IF cpc = "load_init" THEN {nstreams} ELSE {stream})
    /\ (ret.op = "Load" /\ ret.err # "ok" /\ cpc = "idle") => open = {}

\* a Load that replaced an open stream has failed at device initialisation
C10_Witness ==
    /\ ret.op = "Load" /\ ret.err = "SpeakerInit" /\ cpc = "idle"
    /\ nstreams >= 2 /\ ctrl # 0

(***************************************************************************)
(* Properties of the catalog scanner                                       *)
(***************************************************************************)
\* the files cataloged in the persisted cache that now hold other, decodable
\* content than the content whose hash the cache records
Rewritten ==
    { q \in FilePaths :
        /\ cache.state = "valid"
        /\ \E i \in 1..Len(cache.tracks) : cache.tracks[i].path = q
        /\ q \in DOMAIN cache.file_hashes
        /\ Exists(q) /\ Decodable(files[q].data)
        /\ Md5(files[q].data) # cache.file_hashes[q] }

\* C1: a Scan that finds cataloged files rewritten with different content
\* completes, counts each of them as updated, refreshes the duration, size,
\* modification time and hash of its track and leaves its loaded-flag false
C1_RewriteUpdates ==
    [][((\E saveOk \in BOOLEAN : Scan(saveOk, {})) /\ Rewritten # {}) =>
         /\ ~crashed' /\ ~res'.panic
         /\ res'.updated = Cardinality(Rewritten)
         /\ \A q \in Rewritten :
               LET i == findTrackByPath(tracks', q)
               IN  /\ i # 0
                   /\ tracks'[i].Duration = getAudioDuration(q).duration
                   /\ tracks'[i].Size = SizeOf(files[q].data)
                   /\ tracks'[i].Modified = files[q].mtime
                   /\ q \in DOMAIN fileHashes'
                   /\ fileHashes'[q] = calculateFileHash(q)
                   /\ ~tracks'[i].metadata.nil
                   /\ ~tracks'[i].metadata.Loaded]_vars

\* the paths of the tracks of a catalog
PathsOf(trks) == { trks[i].Path : i \in 1..Len(trks) }

\* a Scan by the scanner that ran the last Scan to its end, with the
\* filesystem and the cache file as that Scan left them
Rescan ==
    /\ \E saveOk \in BOOLEAN : Scan(saveOk, {})
    /\ res.op = "Scan" /\ ~res.panic
    /\ Len(tracks) = res.total
    /\ since = NoChange

\* C11: a Scan right after a Scan, with no change to the filesystem in
\* between, reports no new, updated or removed track and leaves the same
\* track paths and the same recorded hashes
C11_RescanFindsNothing ==
    [][Rescan =>
         /\ ~res'.panic
         /\ res'.new = 0 /\ res'.updated = 0 /\ res'.removed = 0
         /\ PathsOf(tracks') = PathsOf(tracks)
         /\ fileHashes' = fileHashes]_vars

\* a Scan after one file of the catalog was removed and nothing else changed
ScanAfterRemoval ==
    /\ \E saveOk \in BOOLEAN : Scan(saveOk, {})
    /\ since.n = 1

\* C12: a Scan after exactly one cataloged file was deleted reports one track
\* removed and one file less in total, and afterwards the deleted path has
\* neither a track nor an entry in the hash map
C12_RemovalDetected ==
    [][ScanAfterRemoval =>
         /\ ~res'.panic
         /\ res'.removed = 1
         /\ res'.total = res.total - 1
         /\ findTrackByPath(tracks', since.del) = 0
         /\ since.del \notin DOMAIN fileHashes']_vars

\* a Scan or an IncrementalScan has returned and the filesystem is as it
\* found it
ScanCompleted ==
    /\ res.op # "none" /\ ~res.panic /\ ~crashed
    /\ since = NoChange

\* C13: after every completed Scan or IncrementalScan each path of the hash
\* map whose file exists has exactly one track, and a path whose file does
\* not exist has neither a track nor an entry in the hash map
C13_CatalogMatchesDisk ==
    ScanCompleted =>
        /\ \A q \in DOMAIN fileHashes :
              Exists(q) => Cardinality({ i \in 1..Len(tracks) : tracks[i].Path = q }) = 1
        /\ \A q \in PathsOf(tracks) \cup DOMAIN fileHashes : Exists(q)

\* a scan has removed the track of a deleted file and kept another track
C13_Witness ==
    /\ ScanCompleted
    /\ res.removed = 1 /\ Len(tracks) >= 1
    /\ \E q \in FilePaths : ~Exists(q) /\ ToLower(Ext(q)) \in extensions

\* C14: a Scan that finds the cache file malformed returns a result whose
\* first diagnostic is the load failure, and starts its directory walk with an
\* empty track list and an empty hash map
C14_CorruptCacheStartsEmpty ==
    [][((\E saveOk \in BOOLEAN : Scan(saveOk, {})) /\ cache.state = "corrupt") =>
         /\ ~res'.panic
         /\ Len(res'.errors) >= 1 /\ res'.errors[1].kind = "load"
         /\ ScanStart.tracks = << >>
         /\ ScanStart.hashes = EmptyMap]_vars

\* path q lies under directory d
IsUnder(d, q) == Len(q) > Len(d) /\ SubSeq(q, 1, Len(d) + 1) = d \o << Slash >>

Roots == { scanPaths[k] : k \in 1..Len(scanPaths) }

\* the directories the walk comes to: no directory above them is unreadable
Reached(denied) == { d \in Dirs : \A e \in denied : ~IsUnder(e, d) }

\* the audio files the walk comes to, and those of them no decoder opens
Seen(denied) ==
    { q \in FilePaths : /\ Exists(q)
                        /\ ToLower(Ext(q)) \in extensions
                        /\ \A e \in denied : ~IsUnder(e, q) }
Failing(denied) == { q \in Seen(denied) : ~Decodable(files[q].data) }

\* the diagnostics of one kind in a result
DiagnosticsOf(r, kind) == { k \in 1..Len(r.errors) : r.errors[k].kind = kind }
DiagnosedPaths(r, kind) == { r.errors[k].path : k \in DiagnosticsOf(r, kind) }

\* a track of the catalog the walk starts with has no Metadata and its file
\* was rewritten with decodable content
NilMetadataRewritten ==
    \E i \in 1..Len(ScanStart.tracks) :
        LET t == ScanStart.tracks[i]
        IN  /\ t.metadata.nil
            /\ Exists(t.Path) /\ Decodable(files[t.Path].data)
            /\ hasFileChanged(ScanStart.hashes, t.Path)

CachedFileDiffers ==
    \E i \in 1..Len(loadCache.tracks) :
        LET q == loadCache.tracks[i].Path
        IN  \/ ~Exists(q)
            \/ Md5(files[q].data) # loadCache.hashes[q]

\* C16: IncrementalScan leaves what Scan would leave and returns what Scan
\* would return if the cache does not load or the file of a cached track
\* differs from its recorded hash; otherwise it reports no updated and no
\* removed track, keeps every track and hash of the loaded catalog as it is,
\* and writes the cache file if and only if it added a track (and can write)
C16_IncrementalScan ==
    [][\A saveOk \in BOOLEAN :
         (res'.op = "IncrementalScan" /\ since' = NoChange /\ files' = files
            /\ IncrementalScan(saveOk, {})) =>
           LET c == loadCache
               o == ScanOutcome(saveOk, {})
           IN  IF c.err \/ CachedFileDiffers
               THEN /\ tracks' = o.tracks /\ fileHashes' = o.hashes
                    /\ cache' = o.cache /\ crashed' = o.panic
                    /\ res' = ScanResult("IncrementalScan", o.st, o.panic, {})
               ELSE /\ ~res'.panic /\ res'.updated = 0 /\ res'.removed = 0
                    /\ Len(tracks') = Len(c.tracks) + res'.new
                    /\ SubSeq(tracks', 1, Len(c.tracks)) = c.tracks
                    /\ \A q \in DOMAIN c.hashes :
                          q \in DOMAIN fileHashes' /\ fileHashes'[q] = c.hashes[q]
                    /\ cache' = IF res'.new > 0 /\ saveOk
                                THEN CacheFile(tracks', fileHashes') ELSE cache]_vars

\* an IncrementalScan has added a file to a catalog whose files had not
\* changed
C16_Witness ==
    /\ res.op = "IncrementalScan" /\ ~res.panic /\ since = NoChange
    /\ res.new = 1 /\ res.total = 2 /\ res.updated = 0 /\ res.removed = 0
    /\ res.errors = << >>

(***************************************************************************)
(* Properties of the Track accessors                                       *)
(***************************************************************************)
\* C17: the accessor calls of all goroutines together call extractMetadata at
\* most once; as soon as one call has gone through loadMetadata there was
\* exactly one extraction and the loaded-flag is true, whatever the extraction
\* returned, and it stays so
C17_OneExtraction ==
    /\ Len(extractions) + Cardinality({ g \in Goroutines : apc[g] = "extract" }) <= 1
    /\ (\E g \in Goroutines : acalls[g] > 0 \/ apc[g] \in {"loaded", "field"}) =>
          (Len(extractions) = 1 /\ ~tmeta.nil /\ tmeta.Loaded)

\* all calls have returned, more than one goroutine had found the metadata
\* unloaded and gone on to take the write lock, and the extraction had failed
C17_Witness ==
    /\ \A g \in Goroutines : acalls[g] = MaxCalls /\ apc[g] = "idle"
    /\ Cardinality(slowed) >= 2
    /\ extractions = << FALSE >>

(***************************************************************************)
(* More properties of the playback session                                 *)
(***************************************************************************)
\* C18: a Load that has opened its file initialises the device if and only if
\* the device was never initialised with success or was last initialised with
\* another rate than the new stream's; and when a Load has returned with
\* success the device's rate is the rate of the loaded stream
C18_InitWhenRateDiffers ==
    [][ /\ \A path \in LoadPaths, data \in Contents \cup {Missing} :
              (nstreams' = nstreams + 1 /\ LoadCall(path, data)
                 /\ Open(path, data).err = "ok") =>
                  ((cpc' = "load_init") = (devRate = 0 \/ devRate # Open(path, data).rate))
        /\ (ret'.op = "Load" /\ ret'.err = "ok" /\ cpc' = "idle") =>
              (devRate' # 0 /\ devRate' = format') ]_vars

\* a second Load has found the device at the rate of its stream and has
\* succeeded without initialising it
C18_Witness ==
    /\ ret = Return("Load", "ok", 0) /\ cpc = "idle"
    /\ nstreams = 2 /\ stream = 2
    /\ devRate = format

\* C19: with no stream loaded Pause() changes neither the playing flag nor a
\* pause flag nor the device
C19_PauseWithoutStream ==
    [][((PauseCall \/ PauseLocked) /\ stream = 0) =>
         (playing' = playing /\ paused' = paused /\ mixer' = mixer /\ devRate' = devRate)]_vars

C21_CloseIdempotent ==
    [][ /\ \A closeOk \in BOOLEAN :
              Close(closeOk) =>
                  /\ stream' = 0 /\ stream \notin open'
                  /\ PositionValue' = 0 /\ DurationValue' = 0
                  /\ stream = 0 =>
                        /\ ret'.op = "Close" /\ ret'.err = "ok"
                        /\ UNCHANGED << session, objects, device >>
        /\ (ret.op = "Close" /\ PlayCall) =>
              /\ ret' = Return("Play", "NoTrackLoaded", 0) /\ cpc' = "idle"
              /\ UNCHANGED << session, objects, device >>
        /\ (ret.op = "Close" /\ \E d \in SeekTargets : SeekCall(d)) =>
              /\ ret' = Return("Seek", "NoTrackLoaded", 0) /\ cpc' = "idle"
              /\ UNCHANGED << session, objects, device >> ]_vars

\* a second Close has returned right after the Close of a stream that was
\* playing
C21_Witness ==
    /\ ret = Return("Close", "ok", 2) /\ cpc = "idle"
    /\ stream = 0 /\ ctrl # 0 /\ playing /\ open = {}

\* C22: with a stream loaded, SetVolume(x) leaves the volume stage of the
\* session silent with gain zero if and only if x <= 0; SetVolume(1.0) leaves
\* it not silent with gain 0 in logarithmic units; a SetVolume with a positive
\* value leaves it not silent whatever it was before; and no other stage
\* changes
C22_VolumeMapping ==
    [][LET x == linear'
       IN  (ret'.op = "SetVolume" /\ SetVolume(x) /\ stream # 0) =>
            /\ (volSilent'[ctrl] /\ volVolume'[ctrl] = Gain(0, TRUE))
                  <=> (x.kind = "num" /\ x.q <= 0)
            /\ (x.kind = "num" /\ x.q = Unit) =>
                  (~volSilent'[ctrl] /\ volVolume'[ctrl] = Gain(0, TRUE))
            /\ (x.kind = "num" /\ x.q > 0) => ~volSilent'[ctrl]
            /\ \A c \in Ids \ {ctrl} :
                  volSilent'[c] = volSilent[c] /\ volVolume'[c] = volVolume[c]]_vars

\* SetVolume(1.0) has returned on a loaded track whose stage it found silent
C22_Witness ==
    /\ ret = Return("SetVolume", "ok", 1) /\ cpc = "idle"
    /\ stream # 0 /\ linear = Float(Unit)
    /\ ~volSilent[ctrl] /\ volVolume[ctrl] = ZeroGain

\* C23: between two operations, a session that is playing has the stream of
\* its current track registered with the output device
C23_PlayingIsRegistered ==
    (playing /\ cpc = "idle" /\ stream # 0) => stream \in mixer

\* C24: between two operations, a session that is playing has a stream open
C24_PlayingHasStream ==
    (playing /\ cpc = "idle") => (stream # 0 /\ stream \in open)

(***************************************************************************)
(* More properties of the catalog scanner                                  *)
(***************************************************************************)
\* C25: an IncrementalScan that loads a persisted cache leaves the track
\* paths and the hash map that a Scan from the same cache file, scanner and
\* filesystem leaves
C25_IncrementalEqualsFull ==
    [][\A saveOk \in BOOLEAN :
         (res'.op = "IncrementalScan" /\ since' = NoChange /\ files' = files
            /\ cache.state = "valid" /\ IncrementalScan(saveOk, {})) =>
           LET o == ScanOutcome(saveOk, {})
           IN  /\ crashed' = o.panic
               /\ PathsOf(tracks') = PathsOf(o.tracks)
               /\ fileHashes' = o.hashes]_vars

\* C26: no write to the loaded-flag of a Track, by the lazy loader or by the
\* scanner's reset, happens while another goroutine holds the Track's
\* metadata lock, for reading in an accessor or for writing
C26_FlagWrittenUnderLock ==
    [][ /\ \A g \in Goroutines, ok \in BOOLEAN :
              extractMetadata(g, ok) => (wlocked = g /\ rlocked = {})
        /\ (ResetLoaded /\ ~tmeta.nil) => (wlocked = 0 /\ rlocked = {}) ]_vars

\* C27: the counts of every Scan that returns are conserved: the total is
\* the number of tracks right after the cache load plus the new tracks minus
\* the removed ones, the updated tracks are at most the tracks right after the
\* cache load, and the total is the length of the track list returned
C27_CountsConserved ==
    [][(res'.op = "Scan" /\ ~res'.panic /\ since' = NoChange /\ files' = files
          /\ \E saveOk \in BOOLEAN : Scan(saveOk, res'.denied)) =>
           LET loaded == Len(ScanStart.tracks)
           IN  /\ res'.total = loaded + res'.new - res'.removed
               /\ res'.updated <= loaded
               /\ res'.total = Len(tracks')]_vars

\* a Scan over a root listed twice has returned with a new track, an updated
\* track and a removed track
C27_Witness ==
    /\ res.op = "Scan" /\ ~res.panic /\ since = NoChange
    /\ scanPaths[1] = scanPaths[2]
    /\ res.new >= 1 /\ res.updated + res.removed >= 1

\* C28: no two tracks of the catalog, in the scanner or in the cache file it
\* has written, have the same path
C28_PathsUnique ==
    /\ \A i, j \in 1..Len(tracks) : tracks[i].Path = tracks[j].Path => i = j
    /\ \A i, j \in 1..Len(cache.tracks) :
          cache.tracks[i].path = cache.tracks[j].path => i = j

\* an IncrementalScan over a root and a directory inside it has added a
\* track to a catalog that held one
C28_Witness ==
    /\ res.op = "IncrementalScan" /\ ~res.panic /\ since = NoChange
    /\ scanPaths = << NameR, Join(NameR, NameS) >>
    /\ res.new = 1 /\ Len(tracks) = 2

====
